---- MODULE Spec2Model ----
(***************************************************************************)
(* A state-machine model of src/c/compiler.c: the single-pass bytecode     *)
(* compiler (Pratt expression parser, statement parser, emitter, locals    *)
(* table, compiler-frame chain).  The C call stack is the control stack    *)
(* ctl: every C function is cut at its calls into the mutually recursive   *)
(* functions, and each piece is one action.                                *)
(***************************************************************************)
EXTENDS Integers, Sequences, FiniteSets, TLC

VARIABLES
  scanner,    \* the scanner: the token stream of the source and its position
  parser,     \* Parser parser: hadError, current, previous
  compiler,   \* Compiler* compiler: address of the innermost frame, NULL = 0
  frames,     \* the Compiler structs on the C stack, by address
  heap,       \* the objects allocated so far, by address (1..Len(heap))
  vmStack,    \* the VM's value stack (push/pop)
  freed,      \* addresses the collector has reclaimed
  stderr,     \* the diagnostics written so far, <<line, message>>
  ctl,        \* the C call stack inside compile(): one record per activation
  result,     \* what the last compile() returned ("none" while none has)
  calls,      \* number of compile() calls started
  errBase,    \* history: Len(stderr) when the running compile() started
  nAdvance,   \* history: number of advance() calls so far
  jumps,      \* history: every patchJump done: function, offset, code length
  loops,      \* history: every emitLoop done: function, operand offset, start
  interned,   \* history: every addConstant done: function, value, result
  chain       \* history: the beginCompiler and endCompiler calls of this compile()

vars == <<scanner, parser, compiler, frames, heap, vmStack, freed, stderr,
          ctl, result, calls, errBase, nAdvance, jumps, loops, interned, chain>>

(***************************************************************************)
(* Bounds of the model.                                                    *)
(***************************************************************************)
MaxCalls == 2      \* compile() calls in one behaviour
MaxDrops == 1      \* tokens deleted from a base program to make an input
LongBody == 32766  \* statements in the body of the longest loop compiled

(***************************************************************************)
(* Program constants.                                                      *)
(***************************************************************************)
MAX_LOCALS == 256

\* The number of constants a one-byte operand (uint8_t) can name.
PoolCapacity == 256

PREC_NONE == 0
PREC_ASSIGNMENT == 1
PREC_OR == 2
PREC_AND == 3
PREC_EQUALITY == 4
PREC_COMPARISON == 5
PREC_TERM == 6
PREC_FACTOR == 7
PREC_UNARY == 8
PREC_CALL == 9
PREC_PRIMARY == 10

NULL == 0

\* The opcodes, numbered in the order the bytecode contract lists them; the
\* call opcodes OP_CALL_0.. are contiguous and OP_RETURN follows the last.
OpNames == <<"OP_CONSTANT", "OP_NULL", "OP_POP", "OP_GET_LOCAL", "OP_SET_LOCAL",
             "OP_GET_GLOBAL", "OP_SET_GLOBAL", "OP_DEFINE_GLOBAL", "OP_EQUAL",
             "OP_GREATER", "OP_LESS", "OP_ADD", "OP_SUBTRACT", "OP_MULTIPLY",
             "OP_DIVIDE", "OP_NOT", "OP_NEGATE", "OP_JUMP", "OP_JUMP_IF_FALSE",
             "OP_LOOP", "OP_CALL_0", "OP_CALL_1", "OP_CALL_2", "OP_CALL_3",
             "OP_CALL_4", "OP_CALL_5", "OP_CALL_6", "OP_CALL_7", "OP_CALL_8",
             "OP_RETURN">>

Op(name) == (CHOOSE i \in 1..Len(OpNames) : OpNames[i] = name) - 1

OP_CONSTANT == Op("OP_CONSTANT")
OP_NULL == Op("OP_NULL")
OP_POP == Op("OP_POP")
OP_GET_LOCAL == Op("OP_GET_LOCAL")
OP_SET_LOCAL == Op("OP_SET_LOCAL")
OP_GET_GLOBAL == Op("OP_GET_GLOBAL")
OP_SET_GLOBAL == Op("OP_SET_GLOBAL")
OP_DEFINE_GLOBAL == Op("OP_DEFINE_GLOBAL")
OP_EQUAL == Op("OP_EQUAL")
OP_GREATER == Op("OP_GREATER")
OP_LESS == Op("OP_LESS")
OP_ADD == Op("OP_ADD")
OP_SUBTRACT == Op("OP_SUBTRACT")
OP_MULTIPLY == Op("OP_MULTIPLY")
OP_DIVIDE == Op("OP_DIVIDE")
OP_NOT == Op("OP_NOT")
OP_NEGATE == Op("OP_NEGATE")
OP_JUMP == Op("OP_JUMP")
OP_JUMP_IF_FALSE == Op("OP_JUMP_IF_FALSE")
OP_LOOP == Op("OP_LOOP")
OP_CALL_0 == Op("OP_CALL_0")
OP_RETURN == Op("OP_RETURN")

\* Conversion to uint8_t.
U8(x) == x % 256

(***************************************************************************)
(* Tokens.  A lexeme is the sequence of its characters, so that two        *)
(* lexemes are equal exactly when length and bytes agree (memcmp).         *)
(***************************************************************************)
Spell(w) ==
  CASE w = "!=" -> <<"!", "=">>
    [] w = "==" -> <<"=", "=">>
    [] w = ">=" -> <<">", "=">>
    [] w = "<=" -> <<"<", "=">>
    [] w = "and" -> <<"a", "n", "d">>
    [] w = "else" -> <<"e", "l", "s", "e">>
    [] w = "false" -> <<"f", "a", "l", "s", "e">>
    [] w = "fun" -> <<"f", "u", "n">>
    [] w = "if" -> <<"i", "f">>
    [] w = "null" -> <<"n", "u", "l", "l">>
    [] w = "or" -> <<"o", "r">>
    [] w = "return" -> <<"r", "e", "t", "u", "r", "n">>
    [] w = "true" -> <<"t", "r", "u", "e">>
    [] w = "var" -> <<"v", "a", "r">>
    [] w = "while" -> <<"w", "h", "i", "l", "e">>
    [] w = "12" -> <<"1", "2">>
    [] w = "'s'" -> <<"\"", "s", "\"">>
    [] w = "''" -> <<"\"", "\"">>
    [] OTHER -> <<w>>

TokenType(w) ==
  CASE w = "(" -> "TOKEN_LEFT_PAREN"
    [] w = ")" -> "TOKEN_RIGHT_PAREN"
    [] w = "{" -> "TOKEN_LEFT_BRACE"
    [] w = "}" -> "TOKEN_RIGHT_BRACE"
    [] w = "!" -> "TOKEN_BANG"
    [] w = "!=" -> "TOKEN_BANG_EQUAL"
    [] w = "," -> "TOKEN_COMMA"
    [] w = "." -> "TOKEN_DOT"
    [] w = "=" -> "TOKEN_EQUAL"
    [] w = "==" -> "TOKEN_EQUAL_EQUAL"
    [] w = ">" -> "TOKEN_GREATER"
    [] w = ">=" -> "TOKEN_GREATER_EQUAL"
    [] w = "<" -> "TOKEN_LESS"
    [] w = "<=" -> "TOKEN_LESS_EQUAL"
    [] w = "-" -> "TOKEN_MINUS"
    [] w = "+" -> "TOKEN_PLUS"
    [] w = ";" -> "TOKEN_SEMICOLON"
    [] w = "/" -> "TOKEN_SLASH"
    [] w = "*" -> "TOKEN_STAR"
    [] w \in {"'s'", "''"} -> "TOKEN_STRING"
    [] w \in {"0", "1", "2", "3", "12"} -> "TOKEN_NUMBER"
    [] w = "and" -> "TOKEN_AND"
    [] w = "else" -> "TOKEN_ELSE"
    [] w = "false" -> "TOKEN_FALSE"
    [] w = "fun" -> "TOKEN_FUN"
    [] w = "if" -> "TOKEN_IF"
    [] w = "null" -> "TOKEN_NULL"
    [] w = "or" -> "TOKEN_OR"
    [] w = "return" -> "TOKEN_RETURN"
    [] w = "true" -> "TOKEN_TRUE"
    [] w = "var" -> "TOKEN_VAR"
    [] w = "while" -> "TOKEN_WHILE"
    [] w = "?" -> "TOKEN_ERROR"
    [] OTHER -> "TOKEN_IDENTIFIER"

\* The decimal digits of n.
RECURSIVE Digits(_)
Digits(n) ==
  LET d == <<"0", "1", "2", "3", "4", "5", "6", "7", "8", "9">>[(n % 10) + 1]
  IN IF n < 10 THEN <<d>> ELSE Append(Digits(n \div 10), d)

\* The token of word w on line i; the word p# is the identifier p<i>.
Token(w, i) ==
  [type |-> TokenType(w), lex |-> IF w = "p#" THEN <<"p">> \o Digits(i) ELSE Spell(w),
   line |-> i]

\* The tokens of a text written as a sequence of words, one word a line.
Tokens(ws) == [i \in 1..Len(ws) |-> Token(ws[i], i)]

\* A source: the tokens head, then reps times the words unit, then the words
\* tail (one word a line again).
Repeated(head, unit, reps, tail) ==
  [head |-> head, unit |-> unit, reps |-> reps, tail |-> tail]

Plain(tokens) == Repeated(tokens, <<>>, 0, <<>>)
Source(ws) == Plain(Tokens(ws))

SourceLen(src) == Len(src.head) + src.reps * Len(src.unit) + Len(src.tail)

\* The i-th token of a source.
TokenAt(src, i) ==
  LET h == Len(src.head)
      u == src.reps * Len(src.unit)
  IN IF i <= h THEN src.head[i]
     ELSE IF i <= h + u THEN Token(src.unit[((i - h - 1) % Len(src.unit)) + 1], i)
     ELSE Token(src.tail[i - h - u], i)

\* A Token no scanner call has produced yet (the zeroed global parser).
NoToken == [type |-> "TOKEN_NONE", lex |-> <<>>, line |-> 0]

\* initScanner(source).
InitScanner(src) == [src |-> src, pos |-> 1]

NoSource == Plain(<<>>)

\* scanToken(): the next token; TOKEN_EOF for ever once the source is used up.
ScanToken(sc) ==
  IF sc.pos <= SourceLen(sc.src) THEN TokenAt(sc.src, sc.pos)
  ELSE [type |-> "TOKEN_EOF", lex |-> <<>>,
        line |-> IF SourceLen(sc.src) = 0 THEN 1
                 ELSE TokenAt(sc.src, SourceLen(sc.src)).line]

ScanNext(sc) == IF sc.pos <= SourceLen(sc.src) THEN [sc EXCEPT !.pos = @ + 1] ELSE sc

(***************************************************************************)
(* The parse-rule table rules[] and getRule.                               *)
(***************************************************************************)
NoRule == [prefix |-> "NULL", infix |-> "NULL", precedence |-> PREC_NONE]

getRule(type) ==
  CASE type = "TOKEN_LEFT_PAREN" -> [prefix |-> "grouping", infix |-> "call", precedence |-> PREC_CALL]
    [] type = "TOKEN_BANG" -> [prefix |-> "unary", infix |-> "NULL", precedence |-> PREC_NONE]
    [] type = "TOKEN_BANG_EQUAL" -> [prefix |-> "NULL", infix |-> "binary", precedence |-> PREC_EQUALITY]
    [] type = "TOKEN_EQUAL_EQUAL" -> [prefix |-> "NULL", infix |-> "binary", precedence |-> PREC_EQUALITY]
    [] type = "TOKEN_GREATER" -> [prefix |-> "NULL", infix |-> "binary", precedence |-> PREC_COMPARISON]
    [] type = "TOKEN_GREATER_EQUAL" -> [prefix |-> "NULL", infix |-> "binary", precedence |-> PREC_COMPARISON]
    [] type = "TOKEN_LESS" -> [prefix |-> "NULL", infix |-> "binary", precedence |-> PREC_COMPARISON]
    [] type = "TOKEN_LESS_EQUAL" -> [prefix |-> "NULL", infix |-> "binary", precedence |-> PREC_COMPARISON]
    [] type = "TOKEN_MINUS" -> [prefix |-> "unary", infix |-> "binary", precedence |-> PREC_TERM]
    [] type = "TOKEN_PLUS" -> [prefix |-> "NULL", infix |-> "binary", precedence |-> PREC_TERM]
    [] type = "TOKEN_SLASH" -> [prefix |-> "NULL", infix |-> "binary", precedence |-> PREC_FACTOR]
    [] type = "TOKEN_STAR" -> [prefix |-> "NULL", infix |-> "binary", precedence |-> PREC_FACTOR]
    [] type = "TOKEN_IDENTIFIER" -> [prefix |-> "variable", infix |-> "NULL", precedence |-> PREC_NONE]
    [] type = "TOKEN_STRING" -> [prefix |-> "string", infix |-> "NULL", precedence |-> PREC_NONE]
    [] type = "TOKEN_NUMBER" -> [prefix |-> "number", infix |-> "NULL", precedence |-> PREC_NONE]
    [] type = "TOKEN_AND" -> [prefix |-> "NULL", infix |-> "and_", precedence |-> PREC_AND]
    [] type = "TOKEN_FALSE" -> [prefix |-> "boolean", infix |-> "NULL", precedence |-> PREC_NONE]
    [] type = "TOKEN_NULL" -> [prefix |-> "null_", infix |-> "NULL", precedence |-> PREC_NONE]
    [] type = "TOKEN_OR" -> [prefix |-> "NULL", infix |-> "or_", precedence |-> PREC_OR]
    [] type = "TOKEN_TRUE" -> [prefix |-> "boolean", infix |-> "NULL", precedence |-> PREC_NONE]
    [] OTHER -> NoRule

(***************************************************************************)
(* The machine state the C functions work on, as one record m; m.gc says   *)
(* whether the collector runs at the allocation points of this step, m.ub  *)
(* which outcome an out-of-bounds store of this step has.                  *)
(***************************************************************************)
\* The outcomes of a store to locals[i] with i >= MAX_LOCALS.  The array is
\* followed by localCount and scopeDepth: either the store leaves the two
\* fields alone and is read back as stored (fields FALSE), or its first
\* words replace them (localCount, scopeDepth are the words then found there).
StoreOutcomes ==
  {[fields |-> FALSE, localCount |-> 0, scopeDepth |-> 0]}
    \cup {[fields |-> TRUE, localCount |-> c, scopeDepth |-> d] : c \in {0, 2}, d \in {-1, 0}}

Machine(g) ==
  [scanner |-> scanner, parser |-> parser, compiler |-> compiler, frames |-> frames,
   heap |-> heap, vmStack |-> vmStack, freed |-> freed, stderr |-> stderr,
   nAdvance |-> nAdvance, jumps |-> jumps, loops |-> loops, interned |-> interned,
   chain |-> chain, gc |-> g, ub |-> [fields |-> FALSE, localCount |-> 0, scopeDepth |-> 0]]

Commit(m) ==
  /\ scanner' = m.scanner
  /\ parser' = m.parser
  /\ compiler' = m.compiler
  /\ frames' = m.frames
  /\ heap' = m.heap
  /\ vmStack' = m.vmStack
  /\ freed' = m.freed
  /\ stderr' = m.stderr
  /\ nAdvance' = m.nAdvance
  /\ jumps' = m.jumps
  /\ loops' = m.loops
  /\ interned' = m.interned
  /\ chain' = m.chain

Range(s) == {s[i] : i \in 1..Len(s)}

(***************************************************************************)
(* The collector.  grayCompilerRoots walks the frame chain from the        *)
(* innermost frame outward and grays each frame's function.                *)
(***************************************************************************)
RECURSIVE GrayWalk(_, _)
GrayWalk(m, thisCompiler) ==
  IF thisCompiler = NULL THEN {}
  ELSE {m.frames[thisCompiler].function}
         \cup GrayWalk(m, m.frames[thisCompiler].enclosing)

grayCompilerRoots(m) == GrayWalk(m, m.compiler) \ {NULL}

\* Everything reachable from a set of grayed objects: a function keeps its
\* constants alive.
RECURSIVE Blacken(_, _)
Blacken(m, gray) ==
  LET more == UNION {Range(m.heap[o].constants) : o \in gray} \ {NULL}
  IN IF more \subseteq gray THEN gray ELSE Blacken(m, gray \cup more)

Reachable(m) == Blacken(m, grayCompilerRoots(m) \cup (Range(m.vmStack) \ {NULL}))

\* An allocation point: the collector may run, and reclaims what is unreachable.
Collect(m) ==
  IF m.gc THEN [m EXCEPT !.freed = @ \cup ((1..Len(m.heap)) \ Reachable(m))]
  ELSE m

\* The allocator's constructors; each returns the new state and the address.
Object(kind) ==
  [kind |-> kind, code |-> <<>>, codeLines |-> <<>>, codeCapacity |-> 0,
   constants |-> <<>>, arity |-> 0, chars |-> <<>>, number |-> 0, bool |-> FALSE]

Allocate(m, obj) ==
  LET m1 == Collect(m)
  IN [m |-> [m1 EXCEPT !.heap = Append(@, obj)], r |-> Len(m.heap) + 1]

newFunction(m) == Allocate(m, Object("function"))
newString(m, chars) == Allocate(m, [Object("string") EXCEPT !.chars = chars])
newNumber(m, d) == Allocate(m, [Object("number") EXCEPT !.number = d])
newBool(m, b) == Allocate(m, [Object("bool") EXCEPT !.bool = b])

push(m, value) == [m EXCEPT !.vmStack = Append(@, value)]
pop(m) == [m |-> [m EXCEPT !.vmStack = SubSeq(@, 1, Len(@) - 1)],
           r |-> m.vmStack[Len(m.vmStack)]]

(***************************************************************************)
(* Token stream adapter.                                                   *)
(***************************************************************************)
advance(m) ==
  [m EXCEPT !.parser.previous = m.parser.current,
            !.parser.current = ScanToken(m.scanner),
            !.scanner = ScanNext(m.scanner),
            !.nAdvance = @ + 1]

errorAt(m, line, message) ==
  [m EXCEPT !.stderr = Append(@, <<line, message>>), !.parser.hadError = TRUE]

error(m, message) == errorAt(m, m.parser.previous.line, message)

consume(m, type, message) ==
  advance(IF m.parser.current.type # type THEN error(m, message) ELSE m)

\* A check that never sees the end of the file (mutant of check).
check_NotEof(m, type) == type # "TOKEN_EOF" /\ m.parser.current.type = type

check(m, type) == m.parser.current.type = type

\* match(type): the state after it; its result is check(m, type).
match(m, type) == IF ~check(m, type) THEN m ELSE advance(m)

(***************************************************************************)
(* Emitter.                                                                *)
(***************************************************************************)
CurrentFunction(m) == m.frames[m.compiler].function

codeCount(m) == Len(m.heap[CurrentFunction(m)].code)

emitByte(m, byte) ==
  LET f == CurrentFunction(m)
      fn == m.heap[f]
      grow == fn.codeCapacity < Len(fn.code) + 1
      cap == IF ~grow THEN fn.codeCapacity
             ELSE IF fn.codeCapacity = 0 THEN 4 ELSE fn.codeCapacity * 2
      m1 == IF grow THEN Collect(m) ELSE m
  IN [m1 EXCEPT !.heap[f].codeCapacity = cap,
                !.heap[f].code = Append(@, U8(byte)),
                !.heap[f].codeLines = Append(@, m.parser.previous.line)]

emitBytes(m, byte1, byte2) == emitByte(emitByte(m, byte1), byte2)

emitLoop(m, loopStart) ==
  LET m1 == emitByte(m, OP_LOOP)
      offset == codeCount(m1) - loopStart + 2
      m2 == emitByte(emitByte(m1, (offset \div 256) % 256), offset % 256)
  IN [m2 EXCEPT !.loops = @ \cup {[fn |-> CurrentFunction(m), at |-> codeCount(m1),
                                   start |-> loopStart]}]

emitJump(m, instruction) ==
  LET m1 == emitByte(emitByte(emitByte(m, instruction), 255), 255)
  IN [m |-> m1, r |-> codeCount(m1) - 2]

patchJump(m, offset) ==
  LET f == CurrentFunction(m)
      jump == codeCount(m) - offset - 2
  IN [m EXCEPT !.heap[f].code[offset + 1] = (jump \div 256) % 256,
               !.heap[f].code[offset + 2] = jump % 256,
               !.jumps = @ \cup {[fn |-> f, at |-> offset, len |-> codeCount(m)]}]

(***************************************************************************)
(* Compiler frames and scopes.                                             *)
(***************************************************************************)
beginCompiler(m, newCompiler) ==
  LET fresh == [enclosing |-> m.compiler, function |-> NULL, locals |-> <<>>,
                localCount |-> 0, scopeDepth |-> -1]
      m1 == [m EXCEPT !.frames = IF newCompiler <= Len(@)
                                  THEN [@ EXCEPT ![newCompiler] = fresh]
                                  ELSE Append(@, fresh),
                      !.compiler = newCompiler]
      a == newFunction(m1)
  IN [a.m EXCEPT !.frames[newCompiler].function = a.r,
                 !.chain = Append(@, [op |-> "begin", frame |-> newCompiler,
                                      function |-> a.r, current |-> m.compiler])]

\* An endCompiler that emits the return without the null (mutant of endCompiler).
endCompiler_NoNull(m) ==
  LET m1 == emitByte(m, OP_RETURN)
      function == CurrentFunction(m1)
      enclosing == m1.frames[m1.compiler].enclosing
  IN [m |-> [m1 EXCEPT !.compiler = enclosing,
                       !.chain = Append(@, [op |-> "end", frame |-> m1.compiler,
                                            function |-> function, current |-> enclosing])],
      r |-> IF m1.parser.hadError THEN NULL ELSE function]

\* An endCompiler that leaves `compiler` at the frame it ends (mutant of
\* endCompiler).
endCompiler_KeepsCurrent(m) ==
  LET m1 == emitBytes(m, OP_NULL, OP_RETURN)
      function == CurrentFunction(m1)
  IN [m |-> [m1 EXCEPT !.chain = Append(@, [op |-> "end", frame |-> m1.compiler,
                                            function |-> function, current |-> m1.compiler])],
      r |-> IF m1.parser.hadError THEN NULL ELSE function]

endCompiler(m) ==
  LET m1 == emitBytes(m, OP_NULL, OP_RETURN)
      function == CurrentFunction(m1)
      enclosing == m1.frames[m1.compiler].enclosing
  IN [m |-> [m1 EXCEPT !.compiler = enclosing,
                       !.chain = Append(@, [op |-> "end", frame |-> m1.compiler,
                                            function |-> function, current |-> enclosing])],
      r |-> IF m1.parser.hadError THEN NULL ELSE function]

beginScope(m) == [m EXCEPT !.frames[m.compiler].scopeDepth = @ + 1]

RECURSIVE PopLocals(_)
PopLocals(m) ==
  LET c == m.frames[m.compiler]
  IN IF c.localCount > 0 /\ c.locals[c.localCount].depth > c.scopeDepth
     THEN PopLocals([emitByte(m, OP_POP) EXCEPT !.frames[m.compiler].localCount = @ - 1])
     ELSE m

endScope(m) == PopLocals([m EXCEPT !.frames[m.compiler].scopeDepth = @ - 1])

(***************************************************************************)
(* Constants and variables.                                                *)
(***************************************************************************)
\* An addConstant that does not keep the value on the VM stack while the pool
\* grows (mutant of addConstant).
addConstant_Unprotected(m, value) ==
  LET f == CurrentFunction(m)
      m3 == [Collect(m) EXCEPT !.heap[f].constants = Append(@, value)]
      r == U8(Len(m3.heap[f].constants))
  IN [m |-> [m3 EXCEPT !.interned = @ \cup {[fn |-> f, value |-> value, operand |-> r]}],
      r |-> r]

addConstant(m, value) ==
  LET f == CurrentFunction(m)
      m1 == push(m, value)
      m2 == Collect(m1)                 \* ensureArrayCapacity may allocate
      p == pop(m2)
      m3 == [p.m EXCEPT !.heap[f].constants = Append(@, p.r)]
      r == U8(Len(m3.heap[f].constants))
  IN [m |-> [m3 EXCEPT !.interned = @ \cup {[fn |-> f, value |-> value, operand |-> r]}],
      r |-> r]

nameConstant(m) ==
  LET s == newString(m, m.parser.previous.lex)
  IN addConstant(s.m, s.r)

emitConstant(m, value) ==
  LET a == addConstant(m, value)
  IN emitBytes(a.m, OP_CONSTANT, a.r)

\* The greatest i < n with locals[i] named as the token, or -1 (i counts from 0).
RECURSIVE ResolveFrom(_, _, _)
ResolveFrom(c, name, i) ==
  IF i < 0 THEN -1
  ELSE IF c.locals[i + 1].name.lex = name.lex THEN i
  ELSE ResolveFrom(c, name, i - 1)

resolveLocal(m, name) ==
  LET c == m.frames[m.compiler] IN ResolveFrom(c, name, c.localCount - 1)

\* parseVariable(error, &constant): the state, the name token, and *constant.
parseVariable(m, message, constant) ==
  LET m1 == consume(m, "TOKEN_IDENTIFIER", message)
      name == m1.parser.previous
  IN IF m1.frames[m1.compiler].scopeDepth = -1
     THEN LET n == nameConstant(m1) IN [m |-> n.m, name |-> name, constant |-> n.r]
     ELSE [m |-> m1, name |-> name, constant |-> constant]

Redeclared == "Variable with this name already declared in this scope."

\* A scan that also stops at the locals of the current scope (mutant of
\* DeclareScan).
DeclareScan_StopsAtScope(m, name, i) ==
  LET c == m.frames[m.compiler]
  IN IF i < 0 \/ c.locals[i + 1].depth <= c.scopeDepth THEN m
     ELSE IF name.lex = c.locals[i + 1].name.lex THEN errorAt(m, name.line, Redeclared)
     ELSE m

\* The scan of declareVariable over locals[i], locals[i-1], ...
RECURSIVE DeclareScan(_, _, _)
DeclareScan(m, name, i) ==
  LET c == m.frames[m.compiler]
  IN IF i < 0 THEN m
     ELSE IF c.locals[i + 1].depth < c.scopeDepth THEN m
     ELSE DeclareScan(IF name.lex = c.locals[i + 1].name.lex
                      THEN errorAt(m, name.line, Redeclared) ELSE m,
                      name, i - 1)

\* The store to locals[localCount] and localCount++.  With localCount >=
\* MAX_LOCALS the store lands behind the array: the behaviour is undefined,
\* and m.ub is its outcome.
StoreLocal(m, name) ==
  LET a == m.compiler
      c == m.frames[a]
      local == [name |-> name, depth |-> c.scopeDepth]
  IN IF c.localCount < MAX_LOCALS \/ ~m.ub.fields
     THEN [m EXCEPT !.frames[a].locals =
                      IF c.localCount < Len(@) THEN [@ EXCEPT ![c.localCount + 1] = local]
                      ELSE Append(@, local),
                    !.frames[a].localCount = @ + 1]
     ELSE [m EXCEPT !.frames[a].localCount = m.ub.localCount + 1,
                    !.frames[a].scopeDepth = m.ub.scopeDepth]

declareVariable(m, name, constant) ==
  IF m.frames[m.compiler].scopeDepth = -1
  THEN emitBytes(m, OP_DEFINE_GLOBAL, constant)
  ELSE StoreLocal(DeclareScan(m, name, m.frames[m.compiler].localCount - 1), name)

\* strtod on the lexeme of a number token.
DigitValue(ch) ==
  CASE ch = "0" -> 0 [] ch = "1" -> 1 [] ch = "2" -> 2 [] ch = "3" -> 3
    [] ch = "4" -> 4 [] ch = "5" -> 5 [] ch = "6" -> 6 [] ch = "7" -> 7
    [] ch = "8" -> 8 [] ch = "9" -> 9 [] OTHER -> -1

RECURSIVE StrToD(_, _)
StrToD(lex, acc) ==
  IF lex = <<>> \/ DigitValue(Head(lex)) < 0 THEN acc
  ELSE StrToD(Tail(lex), 10 * acc + DigitValue(Head(lex)))

(***************************************************************************)
(* The C call stack.                                                       *)
(***************************************************************************)
Top == ctl[Len(ctl)]
At(pc) == ctl # <<>> /\ Top.pc = pc
Rest == SubSeq(ctl, 1, Len(ctl) - 1)

\* Activation records of the recursive functions at their entry.
ParsePrecedenceCall(precedence) == [pc |-> "parsePrecedence", precedence |-> precedence]
ExpressionCall == ParsePrecedenceCall(PREC_ASSIGNMENT)
StatementCall == [pc |-> "statement"]
BlockCall == [pc |-> "block"]

\* 1 when an iteration of a loop starts with the end-of-file token as current
\* (kept by the activation of the loop, for the termination claims).
AtEof(m) == IF m.parser.current.type = "TOKEN_EOF" THEN 1 ELSE 0

\* localCount and scopeDepth of the current frame (kept by the activation that
\* will close the scope it opens, for the scope claims).
ScopeMark(m) == <<m.frames[m.compiler].localCount, m.frames[m.compiler].scopeDepth>>

(***************************************************************************)
(* Inputs: the sources compile() is called with.                           *)
(***************************************************************************)
BasePrograms ==
  { <<"var", "x", "=", "1", ";", "x", ";">>,
    <<"1", "+", "2", "*", "3", ";">>,
    <<"if", "(", "true", ")", "1", ";", "else", "2", ";">>,
    <<"while", "(", "false", ")", "1", ";">>,
    <<"fun", "f", "(", "a", ",", "b", ")", "{", "return", "a", "+", "b", ";", "}",
      "f", "(", "1", ",", "2", ")", ";">>,
    <<"true", "and", "false", ";">>,
    <<"{", "var", "a", "=", "1", ";", "var", "a", "=", "2", ";", "}">>,
    <<"a", "+", "b", "=", "c", ";">>,
    <<"f", "(", "b", "=", "c", ")", ";">>,
    <<"{", "var", "a", "=", "1", ";", "{", "var", "a", "=", "2", ";", "a", "=", "3", ";", "}", "a", ";", "}">>,
    <<"fun", "f", "(", "a", ")", "{", "var", "a", "=", "1", ";", "}">>,
    <<"{", "var", "f", "=", "1", ";", "fun", "f", "(", ")", "{", "}", "}">>,
    <<"a", "or", "!", "b", "=", "12", ";">>,
    <<"x", "and", "-", "a", "=", "'s'", ";">>,
    <<"a", "=", "(", "b", ")", "<=", "null", "/", "2", ";">>,
    <<"return", ";", "a", "!=", "b", ">", "c", "-", "1", ";">>,
    <<"while", "(", "a", ")", "{", "var", "b", "=", "a", ";", "if", "(", "b", ")", "var", "c", "=", "b", ";", "}">>,
    <<"fun", "f", "(", ")", "{", "fun", "g", "(", "x", ")", "{", "return", "x", ";", "}", "g", "(", "f", ")", ";", "}">> }

\* p without the token at place i.
Drop(p, i) == SubSeq(p, 1, i - 1) \o SubSeq(p, i + 1, Len(p))

\* The sources made from p by deleting at most n tokens.
RECURSIVE Drops(_, _)
Drops(p, n) ==
  IF n = 0 THEN {p}
  ELSE {p} \cup UNION {Drops(Drop(p, i), n - 1) : i \in 1..Len(p)}

\* The sources that are p cut after i tokens.
Cuts(p) == {SubSeq(p, 1, i) : i \in 0..Len(p)}

Inputs ==
  {Plain(p) : p \in UNION {Drops(Tokens(ws), MaxDrops) \cup Cuts(Tokens(ws)) : ws \in BasePrograms}}

\* The sources of the second and later compile() calls.
Reinputs ==
  { Source(<<"x", ";">>), Source(<<"{", "var", "a", ";">>),
    Source(<<"fun", "f", "(", ")", "{", "fun", "g", "(", ")", "{", "1", "}", "}">>) }

(***************************************************************************)
(* Initial state: the zeroed globals, no compile() call made.              *)
(***************************************************************************)
Init ==
  /\ scanner = InitScanner(NoSource)
  /\ parser = [hadError |-> FALSE, current |-> NoToken, previous |-> NoToken]
  /\ compiler = NULL
  /\ frames = <<>>
  /\ heap = <<>>
  /\ vmStack = <<>>
  /\ freed = {}
  /\ stderr = <<>>
  /\ ctl = <<>>
  /\ result = [returned |-> FALSE, function |-> NULL]
  /\ calls = 0
  /\ errBase = 0
  /\ nAdvance = 0
  /\ jumps = {}
  /\ loops = {}
  /\ interned = {}
  /\ chain = <<>>

(***************************************************************************)
(* compile(source).                                                        *)
(***************************************************************************)
\* A compile() that does not clear parser.hadError (mutant of CompileBegin).
CompileBegin_KeepsHadError(m, source) ==
  advance(beginCompiler([m EXCEPT !.scanner = InitScanner(source)], Len(m.frames) + 1))

\* compile() up to its first statement() call: &mainCompiler is the first
\* Compiler struct of the C stack.
CompileBegin(m, source) ==
  LET m1 == beginCompiler([m EXCEPT !.scanner = InitScanner(source)], Len(m.frames) + 1)
  IN advance([m1 EXCEPT !.parser.hadError = FALSE])

Compile(source) ==
  /\ ctl = <<>>
  /\ calls < MaxCalls
  /\ \E g \in BOOLEAN :
       LET m == CompileBegin([Machine(g) EXCEPT !.chain = <<>>], source)
       IN /\ Commit(match(m, "TOKEN_EOF"))
          /\ ctl' = IF ~check(m, "TOKEN_EOF")
                    THEN <<[pc |-> "compile_loop", adv |-> m.nAdvance, eofIter |-> AtEof(m)],
                           StatementCall>>
                    ELSE <<[pc |-> "compile_end"]>>
  /\ calls' = calls + 1
  /\ errBase' = Len(stderr)
  /\ result' = [returned |-> FALSE, function |-> NULL]

\* } while (!match(TOKEN_EOF));
CompileLoop ==
  /\ At("compile_loop")
  /\ \E g \in BOOLEAN :
       LET m == Machine(g)
       IN /\ Commit(match(m, "TOKEN_EOF"))
          /\ ctl' = IF ~check(m, "TOKEN_EOF")
                    THEN <<[Top EXCEPT !.adv = m.nAdvance, !.eofIter = @ + AtEof(m)],
                           StatementCall>>
                    ELSE <<[pc |-> "compile_end"]>>
  /\ UNCHANGED <<calls, errBase, result>>

\* return endCompiler();  mainCompiler leaves the C stack.
CompileEnd ==
  /\ At("compile_end")
  /\ \E g \in BOOLEAN :
       LET e == endCompiler(Machine(g))
       IN /\ Commit([e.m EXCEPT !.frames = SubSeq(@, 1, Len(@) - 1)])
          /\ result' = [returned |-> TRUE, function |-> e.r]
  /\ ctl' = <<>>
  /\ UNCHANGED <<calls, errBase>>

(***************************************************************************)
(* Statements.                                                             *)
(***************************************************************************)
Statement ==
  /\ At("statement")
  /\ \E g \in BOOLEAN :
       LET m == Machine(g)
       IN IF check(m, "TOKEN_FUN")
          THEN Commit(advance(m)) /\ ctl' = Append(Rest, [pc |-> "funStatement"])
          ELSE IF check(m, "TOKEN_IF")
          THEN Commit(advance(m)) /\ ctl' = Append(Rest, [pc |-> "ifStatement"])
          ELSE IF check(m, "TOKEN_RETURN")
          THEN Commit(advance(m)) /\ ctl' = Append(Rest, [pc |-> "returnStatement"])
          ELSE IF check(m, "TOKEN_VAR")
          THEN Commit(advance(m)) /\ ctl' = Append(Rest, [pc |-> "varStatement"])
          ELSE IF check(m, "TOKEN_WHILE")
          THEN Commit(advance(m)) /\ ctl' = Append(Rest, [pc |-> "whileStatement"])
          ELSE IF check(m, "TOKEN_LEFT_BRACE")
          THEN /\ Commit(beginScope(m))
               /\ ctl' = Rest \o <<[pc |-> "statement_block", scope0 |-> ScopeMark(m)], BlockCall>>
          ELSE /\ Commit(m)
               /\ ctl' = Rest \o <<[pc |-> "statement_expression"], ExpressionCall>>
  /\ UNCHANGED <<calls, errBase, result>>

\* statement(), after block(): endScope().
StatementBlock ==
  /\ At("statement_block")
  /\ \E g \in BOOLEAN : Commit(endScope(Machine(g)))
  /\ ctl' = Rest
  /\ UNCHANGED <<calls, errBase, result>>

\* statement(), after expression().
StatementExpression ==
  /\ At("statement_expression")
  /\ \E g \in BOOLEAN :
       Commit(consume(emitByte(Machine(g), OP_POP), "TOKEN_SEMICOLON",
                      "Expect ';' after expression."))
  /\ ctl' = Rest
  /\ UNCHANGED <<calls, errBase, result>>

Block ==
  /\ At("block")
  /\ \E g \in BOOLEAN :
       LET m == consume(Machine(g), "TOKEN_LEFT_BRACE", "Expect '{' before block.")
       IN /\ Commit(m)
          /\ ctl' = Append(Rest, [pc |-> "block_loop", adv |-> -1, eofIter |-> 0])
  /\ UNCHANGED <<calls, errBase, result>>

\* The while loop of block() and the consume after it.
BlockLoop ==
  /\ At("block_loop")
  /\ \E g \in BOOLEAN :
       LET m == Machine(g)
       IN IF ~check(m, "TOKEN_RIGHT_BRACE") /\ ~check(m, "TOKEN_EOF")
          THEN /\ Commit(m)
               /\ ctl' = Rest \o <<[Top EXCEPT !.adv = m.nAdvance, !.eofIter = @ + AtEof(m)],
                                   StatementCall>>
          ELSE /\ Commit(consume(m, "TOKEN_RIGHT_BRACE", "Expect '}' after block."))
               /\ ctl' = Rest
  /\ UNCHANGED <<calls, errBase, result>>

\* funStatement() up to the parameter list; &functionCompiler is the next
\* Compiler struct of the C stack.
FunStatement ==
  /\ At("funStatement")
  /\ \E g \in BOOLEAN :
       LET v == parseVariable(Machine(g), "Expect function name.", 255)
           m1 == beginScope(beginCompiler(v.m, Len(v.m.frames) + 1))
           m2 == consume(m1, "TOKEN_LEFT_PAREN", "Expect '(' after function name.")
           rec == [name |-> v.name, nameConstant |-> v.constant, scope0 |-> <<0, -1>>,
                   adv |-> -1, eofIter |-> 0]
       IN /\ Commit(m2)
          /\ ctl' = Append(Rest,
                      IF ~check(m2, "TOKEN_RIGHT_PAREN")
                      THEN [pc |-> "funStatement_param"] @@ rec
                      ELSE [pc |-> "funStatement_body"] @@ rec)
  /\ UNCHANGED <<calls, errBase, result>>

\* One turn of the parameter loop.  paramConstant is uninitialised and never
\* read: the scope depth of the new frame is 0 here.
FunParam ==
  /\ At("funStatement_param")
  /\ \E g \in BOOLEAN, u \in StoreOutcomes :
       LET m0 == [Machine(g) EXCEPT !.ub = u]
           v == parseVariable(m0, "Expect parameter name.", 0)
           m1 == declareVariable(v.m, v.name, v.constant)
           f == CurrentFunction(m1)
           m2 == [m1 EXCEPT !.heap[f].arity = @ + 1]
           rec == [Top EXCEPT !.adv = m0.nAdvance, !.eofIter = @ + AtEof(m0)]
       IN /\ Commit(match(m2, "TOKEN_COMMA"))
          /\ ctl' = Append(Rest,
                      IF check(m2, "TOKEN_COMMA") THEN rec
                      ELSE [rec EXCEPT !.pc = "funStatement_body"])
  /\ UNCHANGED <<calls, errBase, result>>

FunBody ==
  /\ At("funStatement_body")
  /\ \E g \in BOOLEAN :
       Commit(consume(Machine(g), "TOKEN_RIGHT_PAREN", "Expect ')' after parameters."))
  /\ ctl' = Rest \o <<[Top EXCEPT !.pc = "funStatement_end"], BlockCall>>
  /\ UNCHANGED <<calls, errBase, result>>

\* funStatement() after block(); functionCompiler leaves the C stack.
FunEndSteps(m, name, constant) ==
  LET e == endCompiler(endScope(m))
  IN declareVariable(emitConstant(e.m, e.r), name, constant)

FunEnd ==
  /\ At("funStatement_end")
  /\ \E g \in BOOLEAN, u \in StoreOutcomes :
       LET m == FunEndSteps([Machine(g) EXCEPT !.ub = u], Top.name, Top.nameConstant)
       IN Commit([m EXCEPT !.frames = SubSeq(@, 1, Len(@) - 1)])
  /\ ctl' = Rest
  /\ UNCHANGED <<calls, errBase, result>>

IfStatement ==
  /\ At("ifStatement")
  /\ \E g \in BOOLEAN :
       Commit(consume(Machine(g), "TOKEN_LEFT_PAREN", "Expect '(' after 'if'."))
  /\ ctl' = Rest \o <<[pc |-> "ifStatement_cond"], ExpressionCall>>
  /\ UNCHANGED <<calls, errBase, result>>

IfCond ==
  /\ At("ifStatement_cond")
  /\ \E g \in BOOLEAN :
       LET m1 == consume(Machine(g), "TOKEN_RIGHT_PAREN", "Expect ')' after condition.")
           j == emitJump(beginScope(m1), OP_JUMP_IF_FALSE)
       IN /\ Commit(emitByte(j.m, OP_POP))
          /\ ctl' = Rest \o <<[pc |-> "ifStatement_then", elseJump |-> j.r,
                               scope0 |-> ScopeMark(m1)], StatementCall>>
  /\ UNCHANGED <<calls, errBase, result>>

IfThen ==
  /\ At("ifStatement_then")
  /\ \E g \in BOOLEAN :
       LET j == emitJump(Machine(g), OP_JUMP)
           m1 == emitByte(patchJump(j.m, Top.elseJump), OP_POP)
           rec == [pc |-> "ifStatement_end", endJump |-> j.r, scope0 |-> Top.scope0]
       IN /\ Commit(match(m1, "TOKEN_ELSE"))
          /\ ctl' = IF check(m1, "TOKEN_ELSE") THEN Rest \o <<rec, StatementCall>>
                    ELSE Append(Rest, rec)
  /\ UNCHANGED <<calls, errBase, result>>

IfEnd ==
  /\ At("ifStatement_end")
  /\ \E g \in BOOLEAN : Commit(endScope(patchJump(Machine(g), Top.endJump)))
  /\ ctl' = Rest
  /\ UNCHANGED <<calls, errBase, result>>

ReturnStatement ==
  /\ At("returnStatement")
  /\ \E g \in BOOLEAN :
       LET m == Machine(g)
       IN IF check(m, "TOKEN_SEMICOLON")
          THEN /\ Commit(emitByte(emitByte(advance(m), OP_NULL), OP_RETURN))
               /\ ctl' = Rest
          ELSE /\ Commit(m)
               /\ ctl' = Rest \o <<[pc |-> "returnStatement_value"], ExpressionCall>>
  /\ UNCHANGED <<calls, errBase, result>>

ReturnValue ==
  /\ At("returnStatement_value")
  /\ \E g \in BOOLEAN :
       Commit(emitByte(consume(Machine(g), "TOKEN_SEMICOLON",
                               "Expect ';' after return value."), OP_RETURN))
  /\ ctl' = Rest
  /\ UNCHANGED <<calls, errBase, result>>

VarStatement ==
  /\ At("varStatement")
  /\ \E g \in BOOLEAN :
       LET v == parseVariable(Machine(g), "Expect variable name.", 255)
       IN /\ Commit(consume(v.m, "TOKEN_EQUAL", "Expect '=' after variable name."))
          /\ ctl' = Rest \o <<[pc |-> "varStatement_init", name |-> v.name,
                               constant |-> v.constant], ExpressionCall>>
  /\ UNCHANGED <<calls, errBase, result>>

VarInit ==
  /\ At("varStatement_init")
  /\ \E g \in BOOLEAN, u \in StoreOutcomes :
       LET m == consume([Machine(g) EXCEPT !.ub = u], "TOKEN_SEMICOLON",
                        "Expect ';' after initializer.")
       IN Commit(declareVariable(m, Top.name, Top.constant))
  /\ ctl' = Rest
  /\ UNCHANGED <<calls, errBase, result>>

WhileStatement ==
  /\ At("whileStatement")
  /\ \E g \in BOOLEAN :
       LET m == Machine(g)
       IN /\ Commit(consume(m, "TOKEN_LEFT_PAREN", "Expect '(' after 'if'."))
          /\ ctl' = Rest \o <<[pc |-> "whileStatement_cond", loopStart |-> codeCount(m)],
                              ExpressionCall>>
  /\ UNCHANGED <<calls, errBase, result>>

WhileCond ==
  /\ At("whileStatement_cond")
  /\ \E g \in BOOLEAN :
       LET m1 == consume(Machine(g), "TOKEN_RIGHT_PAREN", "Expect ')' after condition.")
           j == emitJump(beginScope(m1), OP_JUMP_IF_FALSE)
       IN /\ Commit(emitByte(j.m, OP_POP))
          /\ ctl' = Rest \o <<[pc |-> "whileStatement_end", loopStart |-> Top.loopStart,
                               exitJump |-> j.r, scope0 |-> ScopeMark(m1)], StatementCall>>
  /\ UNCHANGED <<calls, errBase, result>>

WhileEnd ==
  /\ At("whileStatement_end")
  /\ \E g \in BOOLEAN :
       Commit(endScope(patchJump(emitLoop(Machine(g), Top.loopStart), Top.exitJump)))
  /\ ctl' = Rest
  /\ UNCHANGED <<calls, errBase, result>>

(***************************************************************************)
(* Expressions.                                                            *)
(***************************************************************************)
\* A gate that lets every handler assign (mutant of CanAssign).
CanAssign_Always(precedence) == precedence >= PREC_NONE

\* bool canAssign = precedence <= PREC_ASSIGNMENT;
CanAssign(precedence) == precedence <= PREC_ASSIGNMENT

\* parsePrecedence() up to the call of the prefix rule.
ParsePrecedence ==
  /\ At("parsePrecedence")
  /\ \E g \in BOOLEAN :
       LET m == advance(Machine(g))
           prefixRule == getRule(m.parser.previous.type).prefix
           canAssign == CanAssign(Top.precedence)
       IN IF prefixRule = "NULL"
          THEN /\ Commit(error(m, "Expected expression.\n"))
               /\ ctl' = Rest
          ELSE /\ Commit(m)
               /\ ctl' = Rest \o <<[pc |-> "parsePrecedence_infix",
                                    precedence |-> Top.precedence,
                                    canAssign |-> canAssign, adv |-> -1, eofIter |-> 0],
                                   [pc |-> prefixRule, canAssign |-> canAssign]>>
  /\ UNCHANGED <<calls, errBase, result>>

\* The while loop of parsePrecedence(): one test, and the call of the infix rule.
ParsePrecedenceInfix ==
  /\ At("parsePrecedence_infix")
  /\ \E g \in BOOLEAN :
       LET m == Machine(g)
           m1 == advance(m)
       IN IF Top.precedence <= getRule(m.parser.current.type).precedence
          THEN /\ Commit(m1)
               /\ ctl' = Rest \o <<[Top EXCEPT !.adv = m.nAdvance, !.eofIter = @ + AtEof(m)],
                                   [pc |-> getRule(m1.parser.previous.type).infix,
                                    canAssign |-> Top.canAssign]>>
          ELSE /\ Commit(m)
               /\ ctl' = Rest
  /\ UNCHANGED <<calls, errBase, result>>

Grouping ==
  /\ At("grouping")
  /\ \E g \in BOOLEAN : Commit(Machine(g))
  /\ ctl' = Rest \o <<[pc |-> "grouping_close"], ExpressionCall>>
  /\ UNCHANGED <<calls, errBase, result>>

GroupingClose ==
  /\ At("grouping_close")
  /\ \E g \in BOOLEAN :
       Commit(consume(Machine(g), "TOKEN_RIGHT_PAREN", "Expect ')' after expression."))
  /\ ctl' = Rest
  /\ UNCHANGED <<calls, errBase, result>>

Unary ==
  /\ At("unary")
  /\ \E g \in BOOLEAN : Commit(Machine(g))
  /\ ctl' = Rest \o <<[pc |-> "unary_operator", operatorType |-> parser.previous.type],
                      ParsePrecedenceCall(PREC_UNARY + 1)>>
  /\ UNCHANGED <<calls, errBase, result>>

UnaryOperator ==
  /\ At("unary_operator")
  /\ \E g \in BOOLEAN :
       Commit(emitByte(Machine(g), IF Top.operatorType = "TOKEN_BANG" THEN OP_NOT
                                   ELSE OP_NEGATE))
  /\ ctl' = Rest
  /\ UNCHANGED <<calls, errBase, result>>

Number ==
  /\ At("number")
  /\ \E g \in BOOLEAN :
       LET n == newNumber(Machine(g), StrToD(parser.previous.lex, 0))
       IN Commit(emitConstant(n.m, n.r))
  /\ ctl' = Rest
  /\ UNCHANGED <<calls, errBase, result>>

\* The lexeme without its quotes: start + 1, length - 2.
String ==
  /\ At("string")
  /\ \E g \in BOOLEAN :
       LET lex == parser.previous.lex
           s == newString(Machine(g), SubSeq(lex, 2, Len(lex) - 1))
       IN Commit(emitConstant(s.m, s.r))
  /\ ctl' = Rest
  /\ UNCHANGED <<calls, errBase, result>>

Boolean ==
  /\ At("boolean")
  /\ \E g \in BOOLEAN :
       LET b == newBool(Machine(g), parser.previous.type = "TOKEN_TRUE")
       IN Commit(emitConstant(b.m, b.r))
  /\ ctl' = Rest
  /\ UNCHANGED <<calls, errBase, result>>

Null_ ==
  /\ At("null_")
  /\ \E g \in BOOLEAN : Commit(emitByte(Machine(g), OP_NULL))
  /\ ctl' = Rest
  /\ UNCHANGED <<calls, errBase, result>>

\* variable(), up to the expression() of an assignment.
Variable ==
  /\ At("variable")
  /\ \E g \in BOOLEAN :
       LET m == Machine(g)
           local == resolveLocal(m, m.parser.previous)
           n == nameConstant(m)
       IN IF local # -1
          THEN IF Top.canAssign /\ check(m, "TOKEN_EQUAL")
               THEN /\ Commit(advance(m))
                    /\ ctl' = Rest \o <<[pc |-> "variable_setLocal", local |-> local],
                                        ExpressionCall>>
               ELSE /\ Commit(emitBytes(m, OP_GET_LOCAL, U8(local)))
                    /\ ctl' = Rest
          ELSE IF Top.canAssign /\ check(n.m, "TOKEN_EQUAL")
               THEN /\ Commit(advance(n.m))
                    /\ ctl' = Rest \o <<[pc |-> "variable_setGlobal", constant |-> n.r],
                                        ExpressionCall>>
               ELSE /\ Commit(emitBytes(n.m, OP_GET_GLOBAL, n.r))
                    /\ ctl' = Rest
  /\ UNCHANGED <<calls, errBase, result>>

VariableSetLocal ==
  /\ At("variable_setLocal")
  /\ \E g \in BOOLEAN : Commit(emitBytes(Machine(g), OP_SET_LOCAL, U8(Top.local)))
  /\ ctl' = Rest
  /\ UNCHANGED <<calls, errBase, result>>

VariableSetGlobal ==
  /\ At("variable_setGlobal")
  /\ \E g \in BOOLEAN : Commit(emitBytes(Machine(g), OP_SET_GLOBAL, Top.constant))
  /\ ctl' = Rest
  /\ UNCHANGED <<calls, errBase, result>>

Binary ==
  /\ At("binary")
  /\ \E g \in BOOLEAN : Commit(Machine(g))
  /\ ctl' = Rest \o <<[pc |-> "binary_operator", operatorType |-> parser.previous.type],
                      ParsePrecedenceCall(getRule(parser.previous.type).precedence + 1)>>
  /\ UNCHANGED <<calls, errBase, result>>

\* The switch of binary().
BinaryEmit(m, operatorType) ==
  CASE operatorType = "TOKEN_BANG_EQUAL" -> emitBytes(m, OP_EQUAL, OP_NOT)
    [] operatorType = "TOKEN_EQUAL_EQUAL" -> emitByte(m, OP_EQUAL)
    [] operatorType = "TOKEN_GREATER" -> emitByte(m, OP_GREATER)
    [] operatorType = "TOKEN_GREATER_EQUAL" -> emitBytes(m, OP_LESS, OP_NOT)
    [] operatorType = "TOKEN_LESS" -> emitByte(m, OP_LESS)
    [] operatorType = "TOKEN_LESS_EQUAL" -> emitBytes(m, OP_GREATER, OP_NOT)
    [] operatorType = "TOKEN_PLUS" -> emitByte(m, OP_ADD)
    [] operatorType = "TOKEN_MINUS" -> emitByte(m, OP_SUBTRACT)
    [] operatorType = "TOKEN_STAR" -> emitByte(m, OP_MULTIPLY)
    [] operatorType = "TOKEN_SLASH" -> emitByte(m, OP_DIVIDE)

BinaryOperator ==
  /\ At("binary_operator")
  /\ \E g \in BOOLEAN : Commit(BinaryEmit(Machine(g), Top.operatorType))
  /\ ctl' = Rest
  /\ UNCHANGED <<calls, errBase, result>>

\* call(), up to the first argument.
Call ==
  /\ At("call")
  /\ \E g \in BOOLEAN :
       LET m == Machine(g)
       IN /\ Commit(m)
          /\ ctl' = IF ~check(m, "TOKEN_RIGHT_PAREN")
                    THEN Rest \o <<[pc |-> "call_argument", argCount |-> 0,
                                    adv |-> m.nAdvance, eofIter |-> AtEof(m)], ExpressionCall>>
                    ELSE Append(Rest, [pc |-> "call_close", argCount |-> 0])
  /\ UNCHANGED <<calls, errBase, result>>

\* The rest of a turn of the argument loop: argCount++ and the loop test.
CallArgument ==
  /\ At("call_argument")
  /\ \E g \in BOOLEAN :
       LET m == Machine(g)
           m1 == match(m, "TOKEN_COMMA")
           argCount == U8(Top.argCount + 1)
       IN /\ Commit(m1)
          /\ ctl' = IF check(m, "TOKEN_COMMA")
                    THEN Rest \o <<[Top EXCEPT !.argCount = argCount, !.adv = m1.nAdvance,
                                               !.eofIter = @ + AtEof(m1)], ExpressionCall>>
                    ELSE Append(Rest, [pc |-> "call_close", argCount |-> argCount])
  /\ UNCHANGED <<calls, errBase, result>>

CallClose ==
  /\ At("call_close")
  /\ \E g \in BOOLEAN :
       Commit(emitByte(consume(Machine(g), "TOKEN_RIGHT_PAREN", "Expect ')' after arguments."),
                       OP_CALL_0 + Top.argCount))
  /\ ctl' = Rest
  /\ UNCHANGED <<calls, errBase, result>>

And_ ==
  /\ At("and_")
  /\ \E g \in BOOLEAN :
       LET j == emitJump(Machine(g), OP_JUMP_IF_FALSE)
       IN /\ Commit(emitByte(j.m, OP_POP))
          /\ ctl' = Rest \o <<[pc |-> "and_patch", endJump |-> j.r],
                              ParsePrecedenceCall(PREC_AND)>>
  /\ UNCHANGED <<calls, errBase, result>>

AndPatch ==
  /\ At("and_patch")
  /\ \E g \in BOOLEAN : Commit(patchJump(Machine(g), Top.endJump))
  /\ ctl' = Rest
  /\ UNCHANGED <<calls, errBase, result>>

Or_ ==
  /\ At("or_")
  /\ \E g \in BOOLEAN :
       LET elseJump == emitJump(Machine(g), OP_JUMP_IF_FALSE)
           endJump == emitJump(elseJump.m, OP_JUMP)
       IN /\ Commit(emitByte(patchJump(endJump.m, elseJump.r), OP_POP))
          /\ ctl' = Rest \o <<[pc |-> "or_patch", endJump |-> endJump.r],
                              ParsePrecedenceCall(PREC_OR)>>
  /\ UNCHANGED <<calls, errBase, result>>

OrPatch ==
  /\ At("or_patch")
  /\ \E g \in BOOLEAN : Commit(patchJump(Machine(g), Top.endJump))
  /\ ctl' = Rest
  /\ UNCHANGED <<calls, errBase, result>>

(***************************************************************************)
(* The specification.                                                      *)
(***************************************************************************)
Parse ==
  \/ ParsePrecedence \/ ParsePrecedenceInfix
  \/ Grouping \/ GroupingClose \/ Unary \/ UnaryOperator
  \/ Number \/ String \/ Boolean \/ Null_
  \/ Variable \/ VariableSetLocal \/ VariableSetGlobal
  \/ Binary \/ BinaryOperator \/ Call \/ CallArgument \/ CallClose
  \/ And_ \/ AndPatch \/ Or_ \/ OrPatch
  \/ Statement \/ StatementBlock \/ StatementExpression \/ Block \/ BlockLoop
  \/ FunStatement \/ FunParam \/ FunBody \/ FunEnd
  \/ IfStatement \/ IfCond \/ IfThen \/ IfEnd
  \/ ReturnStatement \/ ReturnValue \/ VarStatement \/ VarInit
  \/ WhileStatement \/ WhileCond \/ WhileEnd
  \/ CompileLoop \/ CompileEnd

Next ==
  \/ \E source \in (IF calls = 0 THEN Inputs ELSE Reinputs) : Compile(source)
  \/ Parse

Spec == Init /\ [][Next]_vars

(***************************************************************************)
(* Long sources.  A source of n statements `true;`, and the loop           *)
(* `while (true) { null; ... null; }` of k statements.  Compiling the loop *)
(* takes six steps a statement, so for the longest loops the behaviours    *)
(* start where compile() stands when the block of the loop is done and     *)
(* whileStatement() is about to emit the loop: LoopBodyDone(k) is that     *)
(* state, with every variable as the steps from Init leave it              *)
(* (LoopBodyReached checks this for the short loop).                       *)
(***************************************************************************)
ManyConstants(n) == Repeated(<<>>, <<"true", ";">>, n, <<>>)

\* fun f(a, p6, p8, ...) { var a = 1; } with n parameters, n > 1.
ManyParams(n) ==
  Repeated(Tokens(<<"fun", "f", "(", "a", ",">>), <<"p#", ",">>, n - 2,
           <<"p#", ")", "{", "var", "a", "=", "1", ";", "}">>)

LoopSource(k) ==
  Repeated(Tokens(<<"while", "(", "true", ")", "{">>), <<"null", ";">>, k, <<"}">>)

RECURSIVE CapacityFor(_, _)
CapacityFor(count, capacity) ==
  IF capacity >= count THEN capacity ELSE CapacityFor(count, capacity * 2)

LoopBodyDone(k) ==
  LET src == LoopSource(k)
      script == [Object("function") EXCEPT
                   !.code = <<OP_CONSTANT, 1, OP_JUMP_IF_FALSE, 255, 255, OP_POP>>
                              \o [i \in 1..2 * k |-> IF i % 2 = 1 THEN OP_NULL ELSE OP_POP],
                   !.codeLines = <<3, 3, 4, 4, 4, 4>>
                                   \o [i \in 1..2 * k |-> 4 + 2 * ((i + 1) \div 2)],
                   !.codeCapacity = CapacityFor(6 + 2 * k, 4),
                   !.constants = <<2>>]
  IN [scanner |-> [src |-> src, pos |-> 7 + 2 * k],
      parser |-> [hadError |-> FALSE, previous |-> TokenAt(src, 6 + 2 * k),
                  current |-> ScanToken([src |-> src, pos |-> 7 + 2 * k])],
      compiler |-> 1,
      frames |-> <<[enclosing |-> NULL, function |-> 1, locals |-> <<>>,
                    localCount |-> 0, scopeDepth |-> 0]>>,
      heap |-> <<script, [Object("bool") EXCEPT !.bool = TRUE]>>,
      vmStack |-> <<>>,
      freed |-> {},
      stderr |-> <<>>,
      ctl |-> <<[pc |-> "compile_loop", adv |-> 1, eofIter |-> 0],
                [pc |-> "whileStatement_end", loopStart |-> 0, exitJump |-> 3,
                 scope0 |-> <<0, -1>>]>>,
      result |-> [returned |-> FALSE, function |-> NULL],
      calls |-> 1,
      errBase |-> 0,
      nAdvance |-> 7 + 2 * k,
      jumps |-> {},
      loops |-> {},
      interned |-> {[fn |-> 1, value |-> 2, operand |-> 1]},
      chain |-> <<[op |-> "begin", frame |-> 1, function |-> 1, current |-> NULL]>>]

State ==
  [scanner |-> scanner, parser |-> parser, compiler |-> compiler, frames |-> frames,
   heap |-> heap, vmStack |-> vmStack, freed |-> freed, stderr |-> stderr, ctl |-> ctl,
   result |-> result, calls |-> calls, errBase |-> errBase, nAdvance |-> nAdvance,
   jumps |-> jumps, loops |-> loops, interned |-> interned, chain |-> chain]

LongInit ==
  \E k \in {LongBody - 3, LongBody - 2, LongBody} :
    LET s == LoopBodyDone(k)
    IN /\ scanner = s.scanner
       /\ parser = s.parser
       /\ compiler = s.compiler
       /\ frames = s.frames
       /\ heap = s.heap
       /\ vmStack = s.vmStack
       /\ freed = s.freed
       /\ stderr = s.stderr
       /\ ctl = s.ctl
       /\ result = s.result
       /\ calls = s.calls
       /\ errBase = s.errBase
       /\ nAdvance = s.nAdvance
       /\ jumps = s.jumps
       /\ loops = s.loops
       /\ interned = s.interned
       /\ chain = s.chain

LongInputs ==
  {ManyConstants(PoolCapacity + 1), ManyParams(MAX_LOCALS + 1), LoopSource(2),
   LoopSource(PoolCapacity \div 2)}

NextLong ==
  \/ \E source \in (IF calls = 0 THEN Inputs \cup LongInputs ELSE Reinputs) : Compile(source)
  \/ Parse

SpecLong == (Init \/ LongInit) /\ [][NextLong]_vars

\* A step is possible: a compile() call is running, or another one can start.
CanStep == ctl # <<>> \/ calls < MaxCalls

\* compile() is sequential code, it takes its next step as long as it has one:
\* weak fairness of Next, that is WF_vars(Next) with ENABLED <<Next>>_vars
\* written out as CanStep.
FairSpec == Spec /\ (([]<>~CanStep) \/ ([]<><<Next>>_vars))

\* The same for the long sources.
FairSpecLong == SpecLong /\ (([]<>~CanStep) \/ ([]<><<NextLong>>_vars))

\* The short loop passes through the state LoopBodyDone describes.
LoopBodyReached == State = LoopBodyDone(2)

(***************************************************************************)
(* Properties.                                                             *)
(***************************************************************************)
Running == ctl # <<>>
Returned(source) == result.returned /\ scanner.src = source

\* Diagnostics written since the running (or last) compile() call started.
Diagnostics == SubSeq(stderr, errBase + 1, Len(stderr))

\* C1: addConstant returns the index at which it stored the value: for every
\* addConstant call made, the operand it returned is below the length of the
\* function's pool and the pool holds the added value at that index (counted
\* from 0), so the first call on an empty pool returns 0.
C1_OperandIsPoolIndex ==
  \A e \in interned :
    /\ e.operand < Len(heap[e.fn].constants)
    /\ heap[e.fn].constants[e.operand + 1] = e.value

\* C2: had_error is set exactly when a diagnostic was reported during the
\* running compile() call (so it stays set once set, and nothing of an earlier
\* call is left in it); compile() returns only after the end-of-file token was
\* consumed, and it returns its function if and only if no diagnostic was
\* reported during the call.
C2_HadErrorDecidesResult ==
  /\ calls > 0 => (parser.hadError <=> Diagnostics # <<>>)
  /\ result.returned =>
       /\ parser.previous.type = "TOKEN_EOF"
       /\ scanner.pos > SourceLen(scanner.src)
       /\ Diagnostics = <<>> => result.function # NULL /\ heap[result.function].kind = "function"
       /\ Diagnostics # <<>> => result.function = NULL

\* C2 witness: a compile() call that returned a function although the call
\* before it had reported diagnostics.
C2_Witness ==
  /\ calls = 2
  /\ result.returned
  /\ errBase > 0
  /\ result.function # NULL

\* The function declaration of the spec's fifth scenario.
FunProgram ==
  Source(<<"fun", "f", "(", "a", ",", "b", ")", "{", "return", "a", "+", "b", ";", "}">>)

\* n times OP_POP.
Pops(n) == [i \in 1..n |-> OP_POP]

\* The functions allocated besides the one compile() returned.
InnerFunctions ==
  {o \in 1..Len(heap) : heap[o].kind = "function" /\ o # result.function}

\* C3 as claimed: the inner function of `fun f(a, b) { return a + b; }` is
\* GET_LOCAL 0, GET_LOCAL 1, ADD, RETURN, NULL, RETURN with arity 2, and the
\* outer function is CONSTANT k, DEFINE_GLOBAL j, NULL, RETURN where constant k
\* is the inner function and constant j the string f.
C3_AsClaimed ==
  Returned(FunProgram) =>
    \E inner \in InnerFunctions :
      LET outer == heap[result.function]
      IN /\ heap[inner].code = <<OP_GET_LOCAL, 0, OP_GET_LOCAL, 1, OP_ADD, OP_RETURN,
                                 OP_NULL, OP_RETURN>>
         /\ heap[inner].arity = 2
         /\ Len(outer.code) = 6
         /\ outer.code[1] = OP_CONSTANT
         /\ outer.code[3] = OP_DEFINE_GLOBAL
         /\ outer.code[2] < Len(outer.constants)
         /\ outer.constants[outer.code[2] + 1] = inner
         /\ outer.code[4] < Len(outer.constants)
         /\ heap[outer.constants[outer.code[4] + 1]].chars = <<"f">>

\* C3 as amended: when the parameter list of a function declaration of at most
\* MAX_LOCALS parameters is done, the parameters are locals 0..n-1 of the new
\* frame at depth 0 and the arity is n;
\* when its body is done the inner function's code is the code of the body,
\* then one OP_POP for each local of the function's outermost scope (its
\* parameters and the variables of its body block), then OP_NULL, OP_RETURN;
\* the enclosing function gets the inner function (none after a diagnostic)
\* appended to its pool and emits OP_CONSTANT with the operand addConstant
\* returned, then, at global scope, OP_DEFINE_GLOBAL with the name's operand.
\* For `fun f(a, b) { return a + b; }` the inner code is GET_LOCAL 0,
\* GET_LOCAL 1, ADD, RETURN, POP, POP, NULL, RETURN.
C3_ParamsDone ==
  At("funStatement_body") /\ heap[frames[compiler].function].arity <= MAX_LOCALS =>
    LET c == frames[compiler]
    IN /\ heap[c.function].arity = c.localCount
       /\ c.scopeDepth = 0
       /\ \A i \in 1..c.localCount : c.locals[i].depth = 0

C3_BodyDone ==
  At("funStatement_end") =>
    LET c == frames[compiler]
        inner == c.function
        encl == frames[c.enclosing]
        outer == encl.function
        value == IF parser.hadError THEN NULL ELSE inner
    IN /\ heap'[inner].code = heap[inner].code \o Pops(c.localCount) \o <<OP_NULL, OP_RETURN>>
       /\ heap'[outer].constants = Append(heap[outer].constants, value)
       /\ heap'[outer].code =
            heap[outer].code \o <<OP_CONSTANT, U8(Len(heap'[outer].constants))>>
              \o (IF encl.scopeDepth = -1 THEN <<OP_DEFINE_GLOBAL, Top.nameConstant>>
                  ELSE <<>>)

C3_Example ==
  Returned(FunProgram) =>
    \E inner \in InnerFunctions :
      /\ heap[inner].code = <<OP_GET_LOCAL, 0, OP_GET_LOCAL, 1, OP_ADD, OP_RETURN,
                              OP_POP, OP_POP, OP_NULL, OP_RETURN>>
      /\ heap[inner].arity = 2
      /\ heap[result.function].constants[2] = inner
      /\ heap[heap[result.function].constants[1]].chars = <<"f">>
      /\ heap[result.function].code =
           <<OP_CONSTANT, 2, OP_DEFINE_GLOBAL, 1, OP_NULL, OP_RETURN>>

C3_FunctionLayout == [][C3_ParamsDone /\ C3_BodyDone /\ C3_Example']_vars

\* C3 witness: the declaration of the fifth scenario compiled to a function.
C3_Witness == Returned(FunProgram) /\ result.function # NULL /\ InnerFunctions # {}

\* The two bytes at offset at (counted from 0) as a big-endian unsigned number.
Operand16(code, at) == code[at + 1] * 256 + code[at + 2]

\* C4: for every jump patched, the operand bytes decode to (code length at
\* patch time) - (placeholder offset) - 2; for every loop emitted, the operand
\* bytes decode to the distance from the byte after the operand back to the
\* loop start.
C4_OperandsDecode ==
  /\ \A j \in jumps : Operand16(heap[j.fn].code, j.at) = j.len - j.at - 2
  /\ \A l \in loops : (l.at + 2) - Operand16(heap[l.fn].code, l.at) = l.start

\* C5: no pool ever holds more than 256 constants and no frame more than
\* MAX_LOCALS locals, and a jump patched over more than 65535 bytes has set
\* had_error.
C5_CapacityChecked ==
  /\ \A o \in 1..Len(heap) : Len(heap[o].constants) <= PoolCapacity
  /\ \A i \in 1..Len(frames) : frames[i].localCount <= MAX_LOCALS
  /\ (\E j \in jumps : j.len - j.at - 2 > 65535) => parser.hadError

\* Diagnostics written by the step.
Written == SubSeq(stderr', Len(stderr) + 1, Len(stderr'))

\* Frame c holds a local named as the token at the depth of its current scope.
DeclaredInScope(c, name) ==
  /\ c.scopeDepth # -1
  /\ \E i \in 1..c.localCount :
       c.locals[i].name.lex = name.lex /\ c.locals[i].depth = c.scopeDepth

\* What the step that declares name in frame c must write.
Detected(c, name) ==
  IF DeclaredInScope(c, name)
  THEN <<name.line, Redeclared>> \in Range(Written) /\ parser'.hadError
  ELSE \A e \in Range(Written) : e[2] # Redeclared

\* C6: a step that calls declareVariable (for a variable, a parameter, or a
\* function name, the last in the enclosing frame) reports "Variable with this
\* name already declared in this scope." at the line of the name token and
\* sets had_error if the frame holds a local of that lexeme at the depth of
\* the current scope, and reports no such diagnostic otherwise (a local of
\* that lexeme at a smaller depth is shadowed); and a compile() call that
\* reported it returns no function.
C6_RedeclarationDetected ==
  [][/\ At("varStatement_init") => Detected(frames[compiler], Top.name)
     /\ At("funStatement_param") => Detected(frames[compiler], parser.current)
     /\ At("funStatement_end") => Detected(frames[frames[compiler].enclosing], Top.name)
     /\ result'.returned /\ (\E e \in Range(Diagnostics') : e[2] = Redeclared)
          => result'.function = NULL]_vars

\* C6 witness: `fun f(a) { var a = 1; }` was compiled: the variable of the body
\* was reported at its line, and no function returned.
C6_Witness ==
  /\ Returned(Source(<<"fun", "f", "(", "a", ")", "{", "var", "a", "=", "1", ";", "}">>))
  /\ Diagnostics = <<<<8, Redeclared>>>>
  /\ result.function = NULL

\* The objects in use: the function of every frame and the function compile()
\* returned, with everything their constant pools reach.
Live ==
  Blacken(State, ({frames[i].function : i \in 1..Len(frames)}
                    \cup (IF result.returned THEN {result.function} ELSE {})) \ {NULL})

\* C7: while compile() runs, grayCompilerRoots reports the function of every
\* frame, and no object in use has been reclaimed by a collection at any of
\* the allocation points passed.
C7_NoLiveObjectCollected ==
  /\ Running => \A i \in 1..Len(frames) : frames[i].function \in grayCompilerRoots(State)
  /\ Live \cap freed = {}

\* C7 witness: during a first compile() call the collector has reclaimed an
\* object while a frame's function holds constants.
C7_Witness ==
  /\ Running
  /\ calls = 1
  /\ freed # {}
  /\ \E i \in 1..Len(frames) : heap[frames[i].function].constants # <<>>

\* No local of a frame lies deeper than the frame's current scope.
LocalsWithinScope ==
  \A i \in 1..Len(frames) :
    \A j \in 1..frames[i].localCount : frames[i].locals[j].depth <= frames[i].scopeDepth

\* The step closes a block, if or while scope with endScope: localCount and
\* scopeDepth are again what they were before the beginScope (Top.scope0), and
\* the code ends with one OP_POP for each local removed.
ScopeClosed ==
  LET c == frames[compiler]
      f == c.function
      n == c.localCount - Top.scope0[1]
  IN /\ ScopeMark([frames |-> frames', compiler |-> compiler']) = Top.scope0
     /\ n >= 0
     /\ Len(heap'[f].code) = Len(heap[f].code) + n + (IF At("whileStatement_end") THEN 3 ELSE 0)
     /\ SubSeq(heap'[f].code, Len(heap'[f].code) - n + 1, Len(heap'[f].code)) = Pops(n)

\* The step closes the scope of a function: one OP_POP for each local of the
\* frame, which are at least its parameters, then OP_NULL, OP_RETURN.
FunctionScopeClosed ==
  LET c == frames[compiler]
      f == c.function
  IN /\ heap'[f].code = heap[f].code \o Pops(c.localCount) \o <<OP_NULL, OP_RETURN>>
     /\ c.localCount >= heap[f].arity

\* C8: in every state no local of any frame is deeper than the frame's scope
\* depth, and every endScope removes the locals of the scope it closes with
\* one OP_POP each and leaves localCount and scopeDepth as they were before
\* the matching beginScope.
C8_ScopesBalanced ==
  [][/\ LocalsWithinScope'
     /\ At("statement_block") \/ At("ifStatement_end") \/ At("whileStatement_end")
          => ScopeClosed
     /\ At("funStatement_end") => FunctionScopeClosed]_vars

\* The continuation of the handler that called the parsePrecedence() whose
\* prefix handler is running.
Caller == ctl[Len(ctl) - 2].pc

\* The variable handler consumes a `=`: it goes on to parse the assigned value.
ConsumesEqual ==
  /\ parser.current.type = "TOKEN_EQUAL"
  /\ parser'.previous = parser.current
  /\ ctl'[Len(ctl)].pc \in {"variable_setLocal", "variable_setGlobal"}

\* The variable handler consumes nothing and emits one OP_GET_LOCAL or
\* OP_GET_GLOBAL.
GetsOnly ==
  LET f == frames[compiler].function
      code == heap[f].code
  IN /\ parser' = parser
     /\ ctl' = Rest
     /\ Len(heap'[f].code) = Len(code) + 2
     /\ SubSeq(heap'[f].code, 1, Len(code)) = code
     /\ heap'[f].code[Len(code) + 1] \in {OP_GET_LOCAL, OP_GET_GLOBAL}

\* An OP_SET_LOCAL or OP_SET_GLOBAL is emitted only by a variable handler that
\* consumed a `=`, and it consumed one only when run at a precedence not above
\* PREC_ASSIGNMENT.
AssignsAtAssignmentOnly ==
  /\ At("variable") /\ ctl' # Rest => ConsumesEqual /\ ctl[Len(ctl) - 1].precedence <= PREC_ASSIGNMENT
  /\ At("variable") /\ ctl' = Rest => GetsOnly

\* C9 as claimed: assignment only at assignment precedence, and for an
\* identifier that is the operand of a unary, binary, and, or, or call
\* expression the handler consumes no `=` and emits only the get.
C9_AsClaimed ==
  [][/\ AssignsAtAssignmentOnly
     /\ At("variable")
        /\ Caller \in {"unary_operator", "binary_operator", "and_patch", "or_patch",
                       "call_argument"}
          => GetsOnly]_vars

\* C9 as amended: assignment only at assignment precedence; for an identifier
\* that is the operand of a unary, binary, and or or expression the handler
\* consumes no `=` and emits only the get; an argument of a call is parsed by
\* expression(), at PREC_ASSIGNMENT, so an identifier that starts an argument
\* and is followed by `=` is assigned to.
C9_AssignmentGate ==
  [][/\ AssignsAtAssignmentOnly
     /\ At("variable")
        /\ Caller \in {"unary_operator", "binary_operator", "and_patch", "or_patch"}
          => GetsOnly
     /\ At("variable") /\ Caller = "call_argument" /\ parser.current.type = "TOKEN_EQUAL"
          => ConsumesEqual]_vars

\* C9 witness: `a + b = c;` was compiled: the handler of b left the `=`, which
\* the expression statement then reported.
C9_Witness ==
  /\ Returned(Source(<<"a", "+", "b", "=", "c", ";">>))
  /\ Diagnostics = <<<<3, "Expect ';' after expression.">>>>
  /\ \A i \in 1..Len(heap) : \A j \in 1..Len(heap[i].code) : heap[i].code[j] # OP_SET_GLOBAL

\* The activations of the parser's loops, by the loop they run.
LoopsStoppingAtEof == {"compile_loop", "block_loop", "parsePrecedence_infix"}
LoopsPassingEof == {"call_argument", "funStatement_param", "funStatement_body", "funStatement_end"}

\* Every turn of a loop that is done has called advance().
TurnsConsume ==
  ctl # <<>> /\ Top.pc \in LoopsStoppingAtEof \cup {"call_argument", "funStatement_param"}
    /\ Top.adv # -1
    => nAdvance > Top.adv

\* C10 as claimed, its last part: no loop starts a turn when the current token
\* is the end of the file.
C10_NoTurnAtEof ==
  \A i \in 1..Len(ctl) :
    ctl[i].pc \in LoopsStoppingAtEof \cup LoopsPassingEof => ctl[i].eofIter = 0

\* C10 as amended: every compile() call returns; every turn of every loop
\* calls advance(); the statement loop of compile(), the block loop and the
\* infix loop start no turn when the current token is the end of the file; the
\* argument loop and the parameter loop start at most one (the first of the
\* loop, or the one after a comma), which reports a diagnostic and ends the loop.
C10_Terminates ==
  /\ Running ~> result.returned
  /\ [](/\ TurnsConsume
        /\ \A i \in 1..Len(ctl) :
             /\ ctl[i].pc \in LoopsStoppingAtEof => ctl[i].eofIter = 0
             /\ ctl[i].pc \in LoopsPassingEof => ctl[i].eofIter <= 1
             /\ ctl[i].pc \in LoopsPassingEof /\ ctl[i].eofIter = 1
                  /\ (i = Len(ctl) \/ ctl[i].pc # "call_argument")
                  => parser.hadError)

\* C10 witness: the argument loop of a call runs a turn that started at the
\* end of the file.
C10_Witness ==
  \E i \in 1..Len(ctl) : ctl[i].pc = "call_argument" /\ ctl[i].eofIter = 1

(***************************************************************************)
(* The compiler-frame chain.  chain logs every beginCompiler and           *)
(* endCompiler call of the running compile(): the frame's address, its     *)
(* function, and the value of `compiler` on the other side of the call.    *)
(***************************************************************************)
\* The begin events of the frames begun and not yet ended, outermost first.
RECURSIVE OpenFrames(_)
OpenFrames(log) ==
  IF log = <<>> THEN <<>>
  ELSE LET before == OpenFrames(SubSeq(log, 1, Len(log) - 1))
       IN IF log[Len(log)].op = "begin" THEN Append(before, log[Len(log)])
          ELSE SubSeq(before, 1, Len(before) - 1)

\* The frames gray_compiler_roots visits from `compiler`, innermost first.
RECURSIVE FrameChain(_)
FrameChain(thisCompiler) ==
  IF thisCompiler = NULL THEN <<>>
  ELSE <<thisCompiler>> \o FrameChain(frames[thisCompiler].enclosing)

Reverse(s) == [i \in 1..Len(s) |-> s[Len(s) + 1 - i]]

\* Every begin starts a new frame on top of the frame that is current, and
\* every end ends the frame begun last among those not ended and makes the
\* frame that was current before its begin the current one again.
StrictStack(log) ==
  \A i \in 1..Len(log) :
    LET open == OpenFrames(SubSeq(log, 1, i - 1))
        e == log[i]
    IN IF e.op = "begin"
       THEN /\ e.current = (IF open = <<>> THEN NULL ELSE open[Len(open)].frame)
            /\ \A j \in 1..(i - 1) : log[j].function # e.function
       ELSE /\ open # <<>>
            /\ e.frame = open[Len(open)].frame
            /\ e.function = open[Len(open)].function
            /\ e.current = open[Len(open)].current

\* Every frame begun has been ended, once.
AllEnded(log) ==
  \A i \in 1..Len(log) :
    log[i].op = "begin" =>
      Cardinality({j \in 1..Len(log) : log[j].op = "end" /\ log[j].function = log[i].function}) = 1

\* C11 (safety): the calls logged form a strict stack; the frames reached from
\* the current-frame pointer are exactly the frames begun and not ended, the
\* innermost first, each still on the C stack and owning the function it was
\* begun with; while no compile() runs the pointer is NULL, every frame has been
\* ended once, and gray_compiler_roots visits nothing.
C11_ChainMatchesCalls ==
  LET open == OpenFrames(chain)
  IN /\ StrictStack(chain)
     /\ FrameChain(compiler) = Reverse([i \in 1..Len(open) |-> open[i].frame])
     /\ \A i \in 1..Len(open) :
          /\ open[i].frame \in 1..Len(frames)
          /\ frames[open[i].frame].function = open[i].function
     /\ Running => open # <<>>
     /\ ~Running =>
          /\ compiler = NULL
          /\ frames = <<>>
          /\ AllEnded(chain)
          /\ grayCompilerRoots(State) = {}

\* C11: the compiler-frame chain is a strict stack.  Always, the begin and end
\* calls nest, the chain from the current-frame pointer is the stack of frames
\* begun and not ended, and after compile() has returned the pointer is NULL
\* and a gray_compiler_roots call visits no frame; and every compile() call
\* that begins a frame leads to a state where it has returned with every frame
\* ended exactly once, errors or not.
C11_FrameChainIsStack ==
  /\ [](C11_ChainMatchesCalls)
  /\ (Running ~> (result.returned /\ compiler = NULL /\ AllEnded(chain)))

\* A second compile() call, after the first returned, has compiled a function
\* nested in a function with an error reported inside, and is back in the
\* frame of the outer function.
C11_Witness ==
  /\ calls = 2
  /\ Running
  /\ parser.hadError
  /\ Len(chain) = 4
  /\ chain[3].op = "begin" /\ chain[4].op = "end"
  /\ compiler = chain[2].frame
  /\ Len(OpenFrames(chain)) = 2

====
